---- MODULE Spec2Model ----
(***************************************************************************)
(* WebSocketInterface: the bridge between WebSocket clients and the DCC-EX *)
(* command parser (src/WebSocketInterface.cpp, src/WebSocketInterface.h).  *)
(*                                                                         *)
(* Bytes are their character codes.  A C string is modelled by the bytes   *)
(* before its first zero byte, so that every strlen / const char* use of   *)
(* the code cuts at a zero byte exactly as the code does.                  *)
(***************************************************************************)
EXTENDS Integers, Sequences, FiniteSets

\* ------------------------------------------------------------ constants
WS_MAX_CLIENTS == 5
WS_COMMAND_BUFFER_SIZE == 128
BUFFER_SIZE == 256

NUL == 0
LF == 10
CR == 13
SP == 32
LT == 60
GT == 62

\* -------------------------------------------------------------- bounds
\* connections the transport can hold at once beyond the ceiling
ExtraConns == 1
\* length of the exhaustively enumerated frames
MaxFrameLen == 3
\* length of the exhaustively enumerated interpreter outputs
MaxOutLen == 3
\* how far past the buffer size the longest run of output bytes goes
OverRun == 1

Conns == 1..(WS_MAX_CLIENTS + ExtraConns)
\* the connection whose data frames are followed through the parser
Senders == {1}

VARIABLES
    phase,        \* "boot" before setup() was called, "run" after
    enabled,      \* WebSocketInterface::enabled
    ws,           \* WebSocketInterface::ws # nullptr
    clientCount,  \* WebSocketInterface::clientCount (uint8_t)
    status,       \* client->status() of each connection of the transport
    handshake,    \* what the connect handler sent to / did with each connection
    pc,           \* "idle", "parsing" (inside DCCEXParser::parse), "done"
    cur,          \* the client of the frame being handled (0: none)
    frame,        \* data[0..len-1] of the last data frame
    calls,        \* DCCEXParser::parse invocations for that frame
    cmd,          \* the command handed to DCCEXParser::parse
    out,          \* the bytes the parser writes during this invocation
    wi,           \* how many of them it has written
    buf,          \* WebSocketPrint::buffer[0..pos-1]; pos is Len(buf)
    outbox        \* the text messages sent by the current/last handler

vars == <<phase, enabled, ws, clientCount, status, handshake,
          pc, cur, frame, calls, cmd, out, wi, buf, outbox>>

regVars == <<clientCount, status, handshake>>
cmdVars == <<pc, cur, frame, calls, cmd, out, wi, buf>>

\* ------------------------------------------------------------- helpers
Fill(b, n) == [i \in 1..n |-> b]

RECURSIVE SeqsUpTo(_, _)
SeqsUpTo(S, n) ==
    IF n = 0 THEN {<<>>}
    ELSE LET shorter == SeqsUpTo(S, n - 1)
         IN  shorter \cup {Append(s, b) : s \in shorter, b \in S}

IsWs(b) == b \in {SP, LF, CR}

\* The bytes of a zero-terminated string that starts at s[from].
CStrFrom(s, from) ==
    LET stop == CHOOSE i \in from..Len(s) :
                    /\ s[i] = NUL
                    /\ \A j \in from..(i - 1) : s[j] # NUL
    IN  SubSeq(s, from, stop - 1)

\* const char* view of a buffer holding s followed by a terminator.
CStr(s) == CStrFrom(Append(s, NUL), 1)

\* Messages of the protocol.
Welcome(c) == [kind |-> "connected", clientId |-> c]
RejectNotice == [kind |-> "error", text |-> "Max clients reached"]
CloseMark == [kind |-> "close"]
Msg(c, body) == [to |-> c, body |-> body]

\* ---------------------------------------------------- command normalizer
\* mutant: the leading whitespace is not skipped
SkipLeadingSkipped(command) == 1

\* handleCommand's while loop over leading ' ', '\n', '\r': the index of the
\* first byte of command[] that is none of them (the terminator stops it).
SkipLeading(command) ==
    CHOOSE i \in 1..Len(command) :
        /\ ~IsWs(command[i])
        /\ \A j \in 1..(i - 1) : IsWs(command[j])

\* mutant: the trailing whitespace is left in place
TrimTrailingSkipped(s) == s

\* handleCommand's second while loop: cmd[--cmdLen] = '\0'.
RECURSIVE TrimTrailing(_)
TrimTrailing(s) ==
    IF Len(s) > 0 /\ IsWs(s[Len(s)])
    THEN TrimTrailing(SubSeq(s, 1, Len(s) - 1))
    ELSE s

\* memcpy + terminator, skip leading whitespace, strlen, trim the tail.
TrimmedCmd(f) ==
    LET command == Append(f, NUL)
    IN  TrimTrailing(CStrFrom(command, SkipLeading(command)))

\* snprintf(dst, size, "<%s>", s): at most size - 1 bytes are written.
Snprintf(size, s) ==
    LET full == <<LT>> \o s \o <<GT>>
    IN  IF Len(full) <= size - 1 THEN full ELSE SubSeq(full, 1, size - 1)

\* mutant: the upper limit on the frame length is not checked
LengthRejectedNoLimit(len) == len = 0

LengthRejected(len) == len = 0 \/ len > WS_COMMAND_BUFFER_SIZE

\* mutant: bracketedCmd one byte too small for a command of maximum length
ParserInputShortBuffer(t) ==
    IF t[1] = LT THEN t ELSE Snprintf(WS_COMMAND_BUFFER_SIZE + 2, t)

\* mutant: the brackets are added without looking at the first character
ParserInputAlwaysWrapped(t) == Snprintf(WS_COMMAND_BUFFER_SIZE + 3, t)

\* What handleCommand hands to the parser for the trimmed text t.
ParserInput(t) ==
    IF t[1] = LT THEN t ELSE Snprintf(WS_COMMAND_BUFFER_SIZE + 3, t)

\* ------------------------------------------------------------- registry
\* mutant: the admission test is off by one
RegistryFullOffByOne(count) == count > WS_MAX_CLIENTS

RegistryFull(count) == count >= WS_MAX_CLIENTS

\* mutant: the disconnect event leaves the count alone
ReleaseSkipped(count) == count

\* mutant: the decrement is not guarded (uint8_t wraps)
ReleaseUnguarded(count) == (count + 255) % 256

Release(count) == IF count > 0 THEN count - 1 ELSE count

\* ---------------------------------------------------------- accumulator
Live(c) == status[c] = "connected"

\* mutant: the message is sent but the cursor is not reset
FlushNoReset(b, c) ==
    IF Len(b) > 0 /\ status[c] = "connected"
    THEN <<b, <<[to |-> c, body |-> CStr(b)]>>>>
    ELSE <<b, <<>>>>

\* mutant: the status of the client is not checked
FlushUnchecked(b, c) ==
    IF Len(b) > 0
    THEN <<(<<>>), <<[to |-> c, body |-> CStr(b)]>>>>
    ELSE <<b, <<>>>>

\* WebSocketPrint::flush on buffer b for client c: <<buffer after, messages>>.
Flush(b, c) ==
    IF Len(b) > 0 /\ Live(c)
    THEN <<(<<>>), <<Msg(c, CStr(b))>>>>
    ELSE <<b, <<>>>>

\* mutant: the buffer counts as full one byte early
FlushDueEarly(byte, pos) == byte = LF \/ pos >= BUFFER_SIZE - 3

\* mutant: the buffer counts as full one byte late
FlushDueLate(byte, pos) == byte = LF \/ pos >= BUFFER_SIZE - 1

FlushDue(byte, pos) == byte = LF \/ pos >= BUFFER_SIZE - 2

\* mutant: the byte is stored without looking at the room left
WriteByteUnbounded(b, byte, c) ==
    LET b2 == Append(b, byte)
    IN  IF byte = LF \/ Len(b2) >= BUFFER_SIZE - 2
        THEN (IF status[c] = "connected"
              THEN <<(<<>>), <<[to |-> c, body |-> CStr(b2)]>>>>
              ELSE <<b2, <<>>>>)
        ELSE <<b2, <<>>>>

\* WebSocketPrint::write(uint8_t) on buffer b: <<buffer after, messages>>.
WriteByte(b, byte, c) ==
    IF Len(b) < BUFFER_SIZE - 1
    THEN LET b2 == Append(b, byte)
         IN  IF FlushDue(byte, Len(b2)) THEN Flush(b2, c) ELSE <<b2, <<>>>>
    ELSE <<b, <<>>>>

\* ------------------------------------------------------------ the inputs
FrameBytes == {NUL, LF, CR, SP, LT, GT, 97}
ShortFrames == SeqsUpTo(FrameBytes, MaxFrameLen)
\* a frame grown to n bytes with letters before its last byte
Grow(f, n) ==
    IF Len(f) = 0 \/ Len(f) >= n THEN f
    ELSE SubSeq(f, 1, Len(f) - 1) \o Fill(97, n - Len(f)) \o <<f[Len(f)]>>
LongFrames ==
    {Grow(f, n) : f \in ShortFrames,
                  n \in (WS_COMMAND_BUFFER_SIZE - 1)..(WS_COMMAND_BUFFER_SIZE + 1)}
Frames == ShortFrames \cup LongFrames

OutBytes == {NUL, LF, 120}
ShortOutputs == SeqsUpTo(OutBytes, MaxOutLen)
LongOutputs ==
    {Fill(120, n) \o tail :
        n \in (BUFFER_SIZE - 3)..(BUFFER_SIZE + OverRun),
        tail \in {<<>>, <<LF, 120>>}}
AccOutputs == ShortOutputs \cup LongOutputs

BridgeFrames == {<<SP>>, <<97>>, <<LT, 97, GT>>}
BridgeOutputs == {<<120, LF, 120>>}
NormOutputs == {<<120>>}
BcastTexts == {<<84>>}

\* ----------------------------------------------------------------- Init
NoCommand ==
    /\ pc = "idle"
    /\ cur = 0
    /\ frame = <<>>
    /\ calls = 0
    /\ cmd = <<>>
    /\ out = <<>>
    /\ wi = 0
    /\ buf = <<>>

Init ==
    /\ phase = "boot"
    /\ enabled = FALSE
    /\ ws = FALSE
    /\ clientCount = 0
    /\ status = [c \in Conns |-> "none"]
    /\ handshake = [c \in Conns |-> <<>>]
    /\ NoCommand
    /\ outbox = <<>>

\* The handler that starts forgets the frame of the one before.
ClearCommand ==
    /\ pc' = "idle"
    /\ cur' = 0
    /\ frame' = <<>>
    /\ calls' = 0
    /\ cmd' = <<>>
    /\ out' = <<>>
    /\ wi' = 0
    /\ buf' = <<>>

\* One event at a time: no handler starts while the parser runs.
Dispatching == phase = "run" /\ pc # "parsing"

\* -------------------------------------------------------------- actions
\* WebSocketInterface::setup
Setup ==
    /\ phase = "boot"
    /\ phase' = "run"
    /\ \E mounted \in BOOLEAN :
        /\ ws' = mounted
        /\ enabled' = mounted
    /\ UNCHANGED <<regVars, cmdVars, outbox>>

\* onWebSocketEvent, WS_EVT_CONNECT
Connect(c) ==
    /\ Dispatching
    /\ ws
    /\ status[c] = "none"
    /\ IF RegistryFull(clientCount)
       THEN /\ handshake' = [handshake EXCEPT ![c] = <<RejectNotice, CloseMark>>]
            /\ status' = [status EXCEPT ![c] = "closing"]
            /\ UNCHANGED clientCount
       ELSE /\ clientCount' = (clientCount + 1) % 256
            /\ handshake' = [handshake EXCEPT ![c] = <<Welcome(c)>>]
            /\ status' = [status EXCEPT ![c] = "connected"]
    /\ ClearCommand
    /\ outbox' = <<>>
    /\ UNCHANGED <<phase, enabled, ws>>

\* onWebSocketEvent, WS_EVT_DISCONNECT
Disconnect(c) ==
    /\ Dispatching
    /\ ws
    /\ status[c] # "none"
    /\ clientCount' = Release(clientCount)
    /\ status' = [status EXCEPT ![c] = "none"]
    /\ handshake' = [handshake EXCEPT ![c] = <<>>]
    /\ ClearCommand
    /\ outbox' = <<>>
    /\ UNCHANGED <<phase, enabled, ws>>

\* The transport sees the peer go: status() stops being WS_CONNECTED; the
\* disconnect event follows later.
Drop(c) ==
    /\ phase = "run"
    /\ status[c] = "connected"
    /\ status' = [status EXCEPT ![c] = "closing"]
    /\ UNCHANGED <<phase, enabled, ws, clientCount, handshake, cmdVars, outbox>>

\* onWebSocketEvent, WS_EVT_DATA: handleCommand up to the call of the parser
DataFrame(c, f, o) ==
    /\ Dispatching
    /\ ws
    /\ status[c] # "none"
    /\ cur' = c
    /\ frame' = f
    /\ wi' = 0
    /\ buf' = <<>>
    /\ outbox' = <<>>
    /\ IF LengthRejected(Len(f)) \/ Len(TrimmedCmd(f)) = 0
       THEN /\ pc' = "done"
            /\ calls' = 0
            /\ cmd' = <<>>
            /\ out' = <<>>
       ELSE /\ pc' = "parsing"
            /\ calls' = 1
            /\ cmd' = ParserInput(TrimmedCmd(f))
            /\ out' = o
    /\ UNCHANGED <<phase, enabled, ws, regVars>>

\* The parser writes its next byte: WebSocketPrint::write
Write ==
    /\ pc = "parsing"
    /\ wi < Len(out)
    /\ LET r == WriteByte(buf, out[wi + 1], cur)
       IN  /\ buf' = r[1]
           /\ outbox' = outbox \o r[2]
    /\ wi' = wi + 1
    /\ UNCHANGED <<phase, enabled, ws, regVars, pc, cur, frame, calls, cmd, out>>

\* mutant: handleCommand returns without the final flush
ReturnWithoutFlush ==
    /\ pc = "parsing"
    /\ wi = Len(out)
    /\ pc' = "done"
    /\ UNCHANGED <<phase, enabled, ws, regVars, cur, frame, calls, cmd, out, wi,
                   buf, outbox>>

\* The parser returns: handleCommand's wsPrint.flush() and its return
Return ==
    /\ pc = "parsing"
    /\ wi = Len(out)
    /\ LET r == Flush(buf, cur)
       IN  /\ buf' = r[1]
           /\ outbox' = outbox \o r[2]
    /\ pc' = "done"
    /\ UNCHANGED <<phase, enabled, ws, regVars, cur, frame, calls, cmd, out, wi>>

\* ws->textAll: every client whose status is WS_CONNECTED, in order
RECURSIVE TextAll(_, _)
TextAll(n, text) ==
    IF n = 0 THEN <<>>
    ELSE TextAll(n - 1, text) \o (IF Live(n) THEN <<Msg(n, text)>> ELSE <<>>)

\* WebSocketInterface::broadcast
Broadcast(text) ==
    /\ Dispatching
    /\ outbox' = IF enabled /\ ws /\ clientCount > 0
                 THEN TextAll(WS_MAX_CLIENTS + ExtraConns, text)
                 ELSE <<>>
    /\ ClearCommand
    /\ UNCHANGED <<phase, enabled, ws, regVars>>

\* mutant: the periodic cleanup recounts the clients from their status
TickRecounting ==
    /\ Dispatching
    /\ outbox' = <<>>
    /\ ClearCommand
    /\ clientCount' = Cardinality({c \in Conns : status[c] = "connected"})
    /\ UNCHANGED <<phase, enabled, ws, status, handshake>>

\* WebSocketInterface::loop
Tick ==
    /\ Dispatching
    /\ outbox' = <<>>
    /\ ClearCommand
    /\ UNCHANGED <<phase, enabled, ws, regVars>>

\* onWebSocketEvent, WS_EVT_PONG and WS_EVT_ERROR
PongOrError(c) ==
    /\ Dispatching
    /\ ws
    /\ status[c] # "none"
    /\ outbox' = <<>>
    /\ ClearCommand
    /\ UNCHANGED <<phase, enabled, ws, regVars>>

\* ------------------------------------------------------- specifications
Next ==
    \/ Setup
    \/ \E c \in Conns : Connect(c)
    \/ \E c \in Conns : Disconnect(c)
    \/ \E c \in Conns : Drop(c)
    \/ \E c \in Senders, f \in BridgeFrames, o \in BridgeOutputs : DataFrame(c, f, o)
    \/ Write
    \/ Return
    \/ \E t \in BcastTexts : Broadcast(t)
    \/ Tick
    \/ \E c \in Conns : PongOrError(c)

Spec == Init /\ [][Next]_vars

\* A started bridge with connection 1 admitted (Setup, then Connect(1)).
OneClient ==
    /\ phase = "run"
    /\ enabled = TRUE
    /\ ws = TRUE
    /\ clientCount = 1
    /\ status = [c \in Conns |-> IF c = 1 THEN "connected" ELSE "none"]
    /\ handshake = [c \in Conns |-> IF c = 1 THEN <<Welcome(1)>> ELSE <<>>]

\* The normalizer on every frame of Frames.
InitNorm ==
    /\ OneClient
    /\ NoCommand
    /\ outbox = <<>>

\* one frame per behaviour: handleCommand keeps nothing between frames
NextNorm ==
    \/ pc = "idle" /\ \E f \in Frames, o \in NormOutputs : DataFrame(1, f, o)
    \/ Write
    \/ Return

SpecNorm == InitNorm /\ [][NextNorm]_vars

\* The accumulator on every output of AccOutputs: the state handleCommand
\* is in when it calls the parser for the frame "a" of connection 1.
InitAcc ==
    /\ OneClient
    /\ pc = "parsing"
    /\ cur = 1
    /\ frame = <<97>>
    /\ calls = 1
    /\ cmd = <<LT, 97, GT>>
    /\ out \in AccOutputs
    /\ wi = 0
    /\ buf = <<>>
    /\ outbox = <<>>

NextAcc ==
    \/ Write
    \/ Return
    \/ Drop(1)

SpecAcc == InitAcc /\ [][NextAcc]_vars

\* A started bridge with connections 1 and 2 admitted (Setup, Connect(1),
\* Connect(2)).
TwoClients ==
    /\ phase = "run"
    /\ enabled = TRUE
    /\ ws = TRUE
    /\ clientCount = 2
    /\ status = [c \in Conns |-> IF c \in {1, 2} THEN "connected" ELSE "none"]
    /\ handshake = [c \in Conns |-> IF c \in {1, 2} THEN <<Welcome(c)>> ELSE <<>>]

\* One frame of connection 1 from its arrival to handleCommand's return,
\* beside a second live connection, on every output of AccOutputs.
InitE2E ==
    /\ TwoClients
    /\ NoCommand
    /\ outbox = <<>>

NextE2E ==
    \/ pc = "idle" /\ \E f \in BridgeFrames, o \in AccOutputs : DataFrame(1, f, o)
    \/ Write
    \/ Return
    \/ \E c \in {1, 2} : Drop(c)

SpecE2E == InitE2E /\ [][NextE2E]_vars

\* ------------------------------------------------ vocabulary of the claims
NoNul(s) == \A i \in 1..Len(s) : s[i] # NUL
NoLF(s) == \A i \in 1..Len(s) : s[i] # LF

\* s without its leading and trailing space, \n, \r
Trimmed(s) ==
    LET keep == {i \in 1..Len(s) : ~IsWs(s[i])}
    IN  IF keep = {} THEN <<>>
        ELSE SubSeq(s, CHOOSE i \in keep : \A j \in keep : i <= j,
                       CHOOSE i \in keep : \A j \in keep : i >= j)

WithinLimit(f) == Len(f) >= 1 /\ Len(f) <= WS_COMMAND_BUFFER_SIZE

\* the bodies of the messages of box, joined in the order they were sent
RECURSIVE Joined(_)
Joined(box) ==
    IF box = <<>> THEN <<>>
    ELSE Joined(SubSeq(box, 1, Len(box) - 1)) \o box[Len(box)].body

Admitted(c) == handshake[c] = <<Welcome(c)>>
Rejected(c) == handshake[c] = <<RejectNotice, CloseMark>>
\* admitted connections whose disconnect event has not happened yet
AdmittedOpen == {c \in Conns : Admitted(c) /\ status[c] # "none"}
\* admitted connections that are live
AdmittedLive == {c \in Conns : Admitted(c) /\ Live(c)}

\* a data frame has been handled, or is being handled
Handling == pc # "idle"

\* ------------------------------------------------------------------ C1
\* C1: in every reachable state the registry count is between 0 and the
\* ceiling WS_MAX_CLIENTS, whatever connect, disconnect (also of rejected
\* connections), data-frame, broadcast and tick events happened.
C1_CountInRange == clientCount >= 0 /\ clientCount <= WS_MAX_CLIENTS

\* the count is already 0 while an admitted connection is still open: its
\* disconnect event is the one the guard of the decrement is there for
C1_Witness == clientCount = 0 /\ AdmittedOpen # {}

\* ------------------------------------------------------------------ C2
\* C2: hard cap - at most WS_MAX_CLIENTS admitted connections are live at
\* the same time.
C2_HardCap == Cardinality(AdmittedLive) <= WS_MAX_CLIENTS

\* ------------------------------------------------------------------ C3
\* C3: a connect event at count = ceiling leaves the count unchanged, sends
\* the rejection notice and then closes the connection, and the rejected
\* connection never gets the welcome acknowledgment.
C3_RejectAtCeiling ==
    /\ [][\A c \in Conns :
            (Connect(c) /\ clientCount = WS_MAX_CLIENTS) =>
                /\ clientCount' = clientCount
                /\ handshake'[c] = <<RejectNotice, CloseMark>>
                /\ ~Live(c)'
                /\ outbox' = <<>>]_vars
    /\ [][\A c \in Conns :
            Rejected(c) => handshake'[c] \in {<<RejectNotice, CloseMark>>, <<>>}]_vars

C3_Witness ==
    \E c \in Conns :
        /\ Rejected(c)
        /\ status[c] = "closing"
        /\ clientCount = WS_MAX_CLIENTS

\* ------------------------------------------------------------------ C4
\* C4: the registry count equals the number of admitted connections that
\* have not disconnected yet; a rejected attempt and the disconnect event
\* of its forced close leave it unchanged.
C4_CountIsAdmitted == clientCount = Cardinality(AdmittedOpen)

\* ------------------------------------------------------------------ C5
\* C5: a frame of length 0, of more than WS_COMMAND_BUFFER_SIZE bytes, or of
\* whitespace only is dropped: the parser is not called, nothing is sent,
\* and the count is unchanged.
C5_Droppable(f) ==
    \/ Len(f) = 0
    \/ Len(f) > WS_COMMAND_BUFFER_SIZE
    \/ \A i \in 1..Len(f) : IsWs(f[i])

C5_SilentDrop ==
    [][(Handling' /\ C5_Droppable(frame')) =>
            /\ pc' = "done"
            /\ calls' = 0
            /\ cmd' = <<>>
            /\ outbox' = <<>>
            /\ clientCount' = clientCount]_vars

C5_Witness ==
    /\ pc = "done"
    /\ Len(frame) = WS_COMMAND_BUFFER_SIZE + 1
    /\ calls = 0
    /\ outbox = <<>>

\* ------------------------------------------------------------------ C6
\* C6 as stated: for every frame of length 1..max whose trimmed text X is
\* not empty and does not start with '<', the parser is called exactly once
\* with '<' X '>'.
C6_Bare(f) ==
    /\ WithinLimit(f)
    /\ Trimmed(f) # <<>>
    /\ Trimmed(f)[1] # LT

C6_Original ==
    (Handling /\ C6_Bare(frame)) =>
        /\ calls = 1
        /\ cmd = <<LT>> \o Trimmed(frame) \o <<GT>>

\* C6 amended: the same for every such frame that contains no zero byte.
C6_WrapsBareText ==
    (Handling /\ C6_Bare(frame) /\ NoNul(frame)) =>
        /\ calls = 1
        /\ cmd = <<LT>> \o Trimmed(frame) \o <<GT>>

\* a trimmed text of exactly the maximum length, handed over in 130 bytes
C6_Witness ==
    /\ pc = "done"
    /\ C6_Bare(frame)
    /\ NoNul(frame)
    /\ Len(Trimmed(frame)) = WS_COMMAND_BUFFER_SIZE
    /\ Len(cmd) = WS_COMMAND_BUFFER_SIZE + 2
    /\ calls = 1

\* ------------------------------------------------------------------ C7
\* C7 as stated: for every within-limit frame whose trimmed text starts
\* with '<', the parser is called exactly once with the trimmed text.
C7_Bracketed(f) ==
    /\ WithinLimit(f)
    /\ Trimmed(f) # <<>>
    /\ Trimmed(f)[1] = LT

C7_Original ==
    (Handling /\ C7_Bracketed(frame)) =>
        /\ calls = 1
        /\ cmd = Trimmed(frame)

\* C7 amended: the same for every such frame that contains no zero byte.
C7_PassesBracketed ==
    (Handling /\ C7_Bracketed(frame) /\ NoNul(frame)) =>
        /\ calls = 1
        /\ cmd = Trimmed(frame)

\* " <a": trimmed, passed on without a closing bracket
C7_Witness ==
    /\ pc = "done"
    /\ frame = <<SP, LT, 97>>
    /\ cmd = <<LT, 97>>
    /\ calls = 1

\* ------------------------------------------------------------------ C8
\* C8 as stated: every command handed to the parser starts with '<', ends
\* with '>', and has no whitespace next to the brackets inside.
C8_Original ==
    (Handling /\ calls = 1) =>
        /\ Len(cmd) >= 2
        /\ cmd[1] = LT
        /\ cmd[Len(cmd)] = GT
        /\ Len(cmd) >= 3 => (~IsWs(cmd[2]) /\ ~IsWs(cmd[Len(cmd) - 1]))

\* C8 amended: every command handed to the parser starts with '<' and has
\* no whitespace at its ends; when the trimmed frame did not start with '<'
\* (the bridge added the brackets) it also ends with '>' and the text
\* between the brackets is not empty and has no whitespace at its ends.
C8_CommandShape ==
    (Handling /\ calls = 1) =>
        /\ Len(cmd) >= 1
        /\ cmd[1] = LT
        /\ ~IsWs(cmd[Len(cmd)])
        /\ Trimmed(frame)[1] # LT =>
            /\ Len(cmd) >= 3
            /\ cmd[Len(cmd)] = GT
            /\ ~IsWs(cmd[2])
            /\ ~IsWs(cmd[Len(cmd) - 1])

\* " a ": whitespace on both sides, brackets added
C8_Witness ==
    /\ pc = "done"
    /\ frame = <<SP, 97, SP>>
    /\ cmd = <<LT, 97, GT>>
    /\ calls = 1

\* ------------------------------------------------------------------ C9
\* C9 as stated, on its non-empty zero-free outputs: written to a live
\* connection, an output with no '\n' and fewer than BUFFER_SIZE bytes gives
\* no message before the final flush and exactly one, equal to it, after.
C9_Original ==
    (Handling /\ calls = 1 /\ Live(cur) /\ NoLF(out) /\ NoNul(out)
        /\ Len(out) >= 1 /\ Len(out) < BUFFER_SIZE) =>
        /\ pc = "parsing" => outbox = <<>>
        /\ pc = "done" => outbox = <<Msg(cur, out)>>

\* C9 amended: the same for a non-empty output with no '\n', no zero byte
\* and fewer than BUFFER_SIZE - 2 bytes.
C9_OneMessageAtFlush ==
    (Handling /\ calls = 1 /\ Live(cur) /\ NoLF(out) /\ NoNul(out)
        /\ Len(out) >= 1 /\ Len(out) < BUFFER_SIZE - 2) =>
        /\ pc = "parsing" => outbox = <<>>
        /\ pc = "done" => outbox = <<Msg(cur, out)>>

\* the longest such output: BUFFER_SIZE - 3 bytes in one message
C9_Witness ==
    /\ pc = "done"
    /\ Live(cur)
    /\ NoLF(out)
    /\ Len(out) = BUFFER_SIZE - 3
    /\ outbox = <<Msg(cur, out)>>

\* ----------------------------------------------------------------- C10
\* C10 as stated: written to a live connection, any output gives a message
\* at each '\n', ending with it, and the messages of the writes and of the
\* final flush, joined in order, are the output.
C10_Delivery(box) ==
    /\ \A i \in 1..Len(box) : box[i].to = cur
    /\ Joined(box) \o buf = SubSeq(out, 1, wi)
    /\ (wi >= 1 /\ out[wi] = LF) =>
            /\ buf = <<>>
            /\ box # <<>>
            /\ LET last == box[Len(box)].body
               IN  last # <<>> /\ last[Len(last)] = LF
    /\ pc = "done" => (wi = Len(out) /\ buf = <<>>)

C10_Original ==
    (Handling /\ calls = 1 /\ Live(cur)) => C10_Delivery(outbox)

\* C10 amended: the same for any output that contains no zero byte.
C10_NothingLost ==
    (Handling /\ calls = 1 /\ Live(cur) /\ NoNul(out)) => C10_Delivery(outbox)

\* more than a buffer of output with a '\n' in it: three messages
C10_Witness ==
    /\ pc = "done"
    /\ Live(cur)
    /\ Len(out) > BUFFER_SIZE
    /\ ~NoLF(out)
    /\ Len(outbox) = 3
    /\ Joined(outbox) = out

\* ----------------------------------------------------------------- C11
\* C11 as stated: when handleCommand has returned for an accepted frame of
\* a connection that stayed live, every byte the parser wrote was delivered
\* to that connection and to no other, and nothing is left in the buffer.
C11_Delivered ==
    /\ buf = <<>>
    /\ Joined(outbox) = out
    /\ \A i \in 1..Len(outbox) : outbox[i].to = cur

C11_Original ==
    (pc = "done" /\ calls = 1 /\ Live(cur)) => C11_Delivered

\* C11 amended: the same for output that contains no zero byte.
C11_EndToEnd ==
    (pc = "done" /\ calls = 1 /\ Live(cur) /\ NoNul(out)) => C11_Delivered

\* output whose tail has no line terminator, beside a second live connection
C11_Witness ==
    /\ pc = "done"
    /\ calls = 1
    /\ Live(cur)
    /\ Live(2)
    /\ NoNul(out)
    /\ Len(out) >= 2
    /\ out[Len(out)] # LF
    /\ ~NoLF(out)
    /\ Len(outbox) >= 2
    /\ Joined(outbox) = out

C14_StartedAfterSetup == phase = "run" => (enabled /\ ws)

\* ----------------------------------------------------------------- C17
\* C17: a data frame of a connection that was rejected at admission is not
\* handed to the parser and gives no command output.
C17_RejectedIgnored ==
    (Handling /\ Rejected(cur)) => (calls = 0 /\ outbox = <<>>)

\* ----------------------------------------------------------------- C13
\* C13: once the connection of the command in flight is not live, no write
\* and no flush (at '\n', at buffer-near-full, the final one) sends anything:
\* the messages sent so far stay as they are until handleCommand returns.
C13_StaleFlushSilent ==
    [][(pc = "parsing" /\ ~Live(cur)) => outbox' = outbox]_vars

\* part of the output went out, then the connection dropped: the rest,
\* with a '\n' in it, stays in the buffer at return
C13_Witness ==
    /\ pc = "done"
    /\ ~Live(cur)
    /\ outbox # <<>>
    /\ buf # <<>>
    /\ \E i \in 1..Len(buf) : buf[i] = LF

\* ----------------------------------------------------------------- C15
\* C15: the write cursor never exceeds BUFFER_SIZE - 1, whatever is written
\* and whenever the connection stops being live.
C15_CursorBound == Len(buf) <= BUFFER_SIZE - 1

\* the buffer of a dropped connection filled to the last byte
C15_Witness ==
    /\ Len(buf) = BUFFER_SIZE - 1
    /\ ~Live(cur)
    /\ wi > BUFFER_SIZE - 1

\* ----------------------------------------------------------------- C16
\* C16 as stated: every message of the accumulator is non-empty and at most
\* BUFFER_SIZE - 2 bytes long; every message other than that of the final
\* flush ends with '\n' or is exactly BUFFER_SIZE - 2 bytes long; a write to
\* a live connection that triggers a flush leaves the cursor at zero.
C16_MessageOk(m) == Len(m) >= 1 /\ Len(m) <= BUFFER_SIZE - 2
C16_WriteMessageOk(m) ==
    /\ C16_MessageOk(m)
    /\ m[Len(m)] = LF \/ Len(m) = BUFFER_SIZE - 2

C16_Messages ==
    /\ \A i \in 1..Len(outbox) : C16_MessageOk(outbox[i].body)
    /\ \A i \in 1..(Len(outbox) - 1) : C16_WriteMessageOk(outbox[i].body)
    /\ (pc = "parsing" /\ outbox # <<>>) =>
            C16_WriteMessageOk(outbox[Len(outbox)].body)

C16_CursorReset ==
    (Write /\ Live(cur) /\ (out[wi + 1] = LF \/ Len(buf) + 1 >= BUFFER_SIZE - 2))
        => buf' = <<>>

C16_Original ==
    /\ []((Handling /\ calls = 1) => C16_Messages)
    /\ [][C16_CursorReset]_vars

\* C16 amended: the same for output that contains no zero byte.
C16_MessageShape ==
    /\ []((Handling /\ calls = 1 /\ NoNul(out)) => C16_Messages)
    /\ [][C16_CursorReset]_vars

\* a message cut at the buffer cap, the cursor back at zero
C16_Witness ==
    /\ pc = "parsing"
    /\ Live(cur)
    /\ buf = <<>>
    /\ wi = BUFFER_SIZE - 2
    /\ Len(outbox) = 1
    /\ Len(outbox[1].body) = BUFFER_SIZE - 2

\* ----------------------------------------------------------------- C18
\* C18: the count changes only in a connect event, by +1 and only on
\* admission, and in a disconnect event, by -1 and only from a count above
\* 0; data frames, broadcast, tick, pong and error events leave it alone,
\* and tick neither calls the parser nor sends anything.
C18_CountChange ==
    clientCount' # clientCount =>
        \E c \in Conns :
            \/ /\ Connect(c)
               /\ clientCount' = clientCount + 1
               /\ Admitted(c)'
            \/ /\ Disconnect(c)
               /\ clientCount > 0
               /\ clientCount' = clientCount - 1

C18_OtherEvent ==
    \/ \E c \in Senders, f \in BridgeFrames, o \in BridgeOutputs : DataFrame(c, f, o)
    \/ Write
    \/ Return
    \/ \E t \in BcastTexts : Broadcast(t)
    \/ Tick
    \/ \E c \in Conns : PongOrError(c)

C18_CountFrame ==
    [][/\ C18_CountChange
       /\ C18_OtherEvent => clientCount' = clientCount
       /\ Tick => (calls' = 0 /\ outbox' = <<>>)]_vars

\* a frame handled, with output, while the registry is full
C18_Witness ==
    /\ pc = "done"
    /\ calls = 1
    /\ outbox # <<>>
    /\ clientCount = WS_MAX_CLIENTS

\* ----------------------------------------------------------------- C19
\* C19: the count is at most the number of admitted connections that have
\* not disconnected yet; with none of them left it is 0.
C19_CountAtMostAdmitted == clientCount <= Cardinality(AdmittedOpen)

\* every admitted connection gone while a rejected one is still closing
C19_Witness ==
    /\ AdmittedOpen = {}
    /\ clientCount = 0
    /\ \E c \in Conns : Rejected(c) /\ status[c] = "closing"

\* ----------------------------------------------------------------- C20
\* C20 as stated: the command holds every byte of the frame between its
\* first and its last non-whitespace byte, also for a frame with a zero
\* byte in it, which is neither cut short nor dropped.
C20_Holds(text) == cmd = text \/ cmd = <<LT>> \o text \o <<GT>>

C20_Original ==
    (Handling /\ WithinLimit(frame) /\ Trimmed(frame) # <<>>) =>
        (calls = 1 /\ C20_Holds(Trimmed(frame)))

\* f up to its first zero byte
C20_UpToNul(f) ==
    LET zeros == {i \in 1..Len(f) : f[i] = NUL}
    IN  IF zeros = {} THEN f
        ELSE SubSeq(f, 1, (CHOOSE i \in zeros : \A j \in zeros : i <= j) - 1)

\* C20 amended: the command holds every byte between the first and the
\* last non-whitespace byte of the frame taken up to its first zero byte;
\* when that part is empty or whitespace only the frame is dropped.
C20_WholeText ==
    (Handling /\ WithinLimit(frame)) =>
        IF Trimmed(C20_UpToNul(frame)) # <<>>
        THEN calls = 1 /\ C20_Holds(Trimmed(C20_UpToNul(frame)))
        ELSE calls = 0

\* "a\0a": cut at the zero byte
C20_Witness ==
    /\ pc = "done"
    /\ frame = <<97, NUL, 97>>
    /\ cmd = <<LT, 97, GT>>
    /\ calls = 1

====
